---- MODULE Spec2Model ----
(***************************************************************************)
(* Model of src/win32/net.cpp: WinHttpIO, the WinHTTP network access layer  *)
(* of the MEGA SDK.  One HttpReq (the request record), up to MaxCtx         *)
(* WinHttpContext objects (one per post() call), the critical section       *)
(* csHTTP, the wakeup event, and the WinHTTP worker threads that run        *)
(* asynccallback().                                                         *)
(*                                                                          *)
(* The application thread owns csHTTP from construction on and gives it up  *)
(* only while it waits (leavecs/entercs); post() and cancel() run on the    *)
(* application thread while it owns csHTTP.  A WinHTTP worker thread enters *)
(* asynccallback() at any time, handles HANDLE_CLOSING without the lock and *)
(* blocks in entercs() for every other notification.                        *)
(***************************************************************************)
EXTENDS Integers, Sequences, FiniteSets

\* ---------------------------------------------------------------- bounds
MaxCtx == 2                  \* post() calls (contexts) in one behaviour
HTTP_POST_CHUNK_SIZE == 2    \* upload instalment, scaled down
MaxChunks == 2               \* bodies of up to MaxChunks full instalments + 1
MaxBody == 2                 \* response body bytes the transport delivers
MaxCL == 2                   \* largest Original-Content-Length

Ctxs == 1..MaxCtx
NoCtx == 0

VARIABLES
    req,        \* the HttpReq
    ctx,        \* ctx[c]: the WinHttpContext created by the c-th post()
    tp,         \* tp[c]: what WinHTTP holds for ctx[c]'s handles
    cb,         \* cb[c]: the notification a worker thread is delivering for c
    cs,         \* owner of csHTTP: "app" or "free"
    io,         \* WinHttpIO fields: waiter, hWakeupEvent, noinetds
    crashed     \* "no", or the fault that ended the process

vars == <<req, ctx, tp, cb, cs, io, crashed>>

NoEvent == [ev |-> "none", n |-> 0, timeout |-> FALSE]

\* ------------------------------------------------------------ construction
InitReq ==
    [status |-> "REQ_READY", httpstatus |-> 0, httpiohandle |-> NoCtx,
     buf |-> FALSE, json |-> TRUE, bufpos |-> 0, inlen |-> 0,
     contentlength |-> -1]

InitCtx ==
    [mem |-> "unallocated", req |-> FALSE, hConnect |-> FALSE,
     hRequest |-> FALSE, postpos |-> 0, postlen |-> 0, gzip |-> "unset",
     zinit |-> FALSE, avail_out |-> 0, total_out |-> 0, zmode |-> "run"]

InitTp ==
    [pend |-> "none", n |-> 0, closedConnect |-> 0, closedRequest |-> 0,
     first |-> 0, writes |-> <<>>, offs |-> <<>>, receiving |-> FALSE,
     acceptgzip |-> FALSE,
     bodyleft |-> 0]

\* WinHttpIO::WinHttpIO: the constructing thread takes csHTTP and keeps it
InitIO ==
    /\ ctx = [c \in Ctxs |-> InitCtx]
    /\ tp = [c \in Ctxs |-> InitTp]
    /\ cb = [c \in Ctxs |-> NoEvent]
    /\ cs = "app"
    /\ io = [waiter |-> FALSE, hWakeupEvent |-> FALSE, noinetds |-> FALSE]

\* the application sets up the HttpReq: with or without a receive buffer
\* for raw data (req->buf), of type REQ_JSON or not
InitIn(bufs, jsons) ==
    /\ req \in {[InitReq EXCEPT !.buf = b, !.json = j] :
                    b \in bufs, j \in jsons}
    /\ InitIO
    /\ crashed = "no"

Init == InitIn({FALSE}, {TRUE})
InitAny == InitIn(BOOLEAN, BOOLEAN)

\* ------------------------------------------------------------------ helpers
Min(a, b) == IF a < b THEN a ELSE b

\* the context the next post() allocates (new WinHttpContext)
Allocated == {c \in Ctxs : ctx[c].mem # "unallocated"}
NewCtx == Cardinality(Allocated) + 1

\* WinHttpCloseHandle on a handle the context holds; counted per handle
CloseCount(n) == IF n < 2 THEN n + 1 ELSE n

\* httpevent(): SetEvent(hWakeupEvent)
httpeventSkipped(i) == i

httpevent(i) == [i EXCEPT !.hWakeupEvent = TRUE]

\* ------------------------------------------------------------------- cancel
\* cancel(): what it does to the HttpReq
CancelReqKeepsHandle(rq) ==
    IF rq.httpiohandle # NoCtx
    THEN [rq EXCEPT !.httpstatus = 0, !.status = "REQ_FAILURE"]
    ELSE rq

CancelReq(rq) ==
    IF rq.httpiohandle # NoCtx
    THEN [rq EXCEPT !.httpstatus = 0, !.status = "REQ_FAILURE",
                    !.httpiohandle = NoCtx]
    ELSE rq

\* cancel(): what it does to the WinHttpContext req->httpiohandle points to
CancelCtxKeepsReq(rq, cx) == cx

CancelCtxFrees(rq, cx) ==
    IF rq.httpiohandle # NoCtx
    THEN [cx EXCEPT ![rq.httpiohandle].req = FALSE,
                    ![rq.httpiohandle].mem = "deleted"]
    ELSE cx

CancelCtx(rq, cx) ==
    IF rq.httpiohandle # NoCtx
    THEN [cx EXCEPT ![rq.httpiohandle].req = FALSE]
    ELSE cx

\* cancel(): the WinHttpCloseHandle calls it makes
CancelTp(rq, cx, t) ==
    IF rq.httpiohandle # NoCtx
    THEN LET h == rq.httpiohandle IN
         [t EXCEPT ![h].closedConnect =
                       IF cx[h].hConnect THEN CloseCount(@) ELSE @,
                   ![h].closedRequest =
                       IF cx[h].hRequest THEN CloseCount(@) ELSE @]
    ELSE t

\* ---------------------------------------------------- application thread
\* addevents(): the waiter registers itself
AddEvents ==
    /\ cs = "app" /\ crashed = "no"
    /\ ~io.waiter
    /\ io' = [io EXCEPT !.waiter = TRUE]
    /\ UNCHANGED <<req, ctx, tp, cb, cs, crashed>>

\* leavecs(): the application thread releases csHTTP to wait
LeaveCS ==
    /\ cs = "app" /\ crashed = "no"
    /\ cs' = "free"
    /\ UNCHANGED <<req, ctx, tp, cb, io, crashed>>

\* entercs(): the wait is over (the auto-reset event was signalled, or the
\* wait timed out); the application thread owns csHTTP again
EnterCS ==
    /\ cs = "free" /\ crashed = "no"
    /\ cs' = "app"
    /\ io' = [io EXCEPT !.hWakeupEvent = FALSE]
    /\ UNCHANGED <<req, ctx, tp, cb, crashed>>

\* the first instalment, sent with the request
FirstChunkNone(len) == 0

FirstChunk(len) ==
    IF len < HTTP_POST_CHUNK_SIZE THEN len ELSE HTTP_POST_CHUNK_SIZE

\* post(): outcome names the first call that fails, or "ok"
PostOutcomes == {"url", "connect", "open", "send", "ok"}

Post(len, outcome) ==
    /\ cs = "app" /\ crashed = "no"
    /\ NewCtx \in Ctxs
    /\ LET c == NewCtx
           connected == outcome \in {"open", "send", "ok"}
           opened == outcome \in {"send", "ok"}
       IN
       /\ ctx' = [ctx EXCEPT ![c] =
                    [InitCtx EXCEPT
                        !.mem = "live",
                        !.req = TRUE,
                        !.hConnect = connected,
                        !.hRequest = opened,
                        !.postlen = IF opened THEN len ELSE 0,
                        !.postpos = IF opened THEN FirstChunk(len) ELSE 0]]
       /\ req' = [req EXCEPT
                    !.httpiohandle = c,
                    !.status = IF outcome = "ok" THEN "REQ_INFLIGHT"
                               ELSE "REQ_FAILURE"]
       /\ tp' = [tp EXCEPT ![c] =
                    IF outcome = "ok"
                    THEN [InitTp EXCEPT
                            !.pend = "SENDREQUEST_COMPLETE",
                            !.first = FirstChunk(len),
                            !.acceptgzip = (req.json \/ ~req.buf)]
                    ELSE InitTp]
    /\ UNCHANGED <<cb, cs, io, crashed>>

\* cancel() called by the application
Cancel ==
    /\ cs = "app" /\ crashed = "no"
    /\ req' = CancelReq(req)
    /\ ctx' = CancelCtx(req, ctx)
    /\ tp' = CancelTp(req, ctx, tp)
    /\ UNCHANGED <<cb, cs, io, crashed>>

\* ----------------------------------------------------------- decompression
\* inflate(&httpctx->z, Z_NO_FLUSH) on `size` compressed bytes.  A compressed
\* byte is a data byte (inflates to one byte of output); the chunk's last
\* byte may instead be the end-of-stream trailer (kind "end") or corrupt
\* (kind "bad").  progress: whether zlib counts the call as progress when
\* the output is full before any byte could be written (it may have
\* consumed input).  Input left over when the output fills up is lost to
\* the next call, which then sees a broken stream.
ChunkKinds == {"data", "end", "bad"}

Inflate(z, size, kind, progress) ==
    LET d == IF kind = "data" THEN size ELSE size - 1
        w == Min(d, z.avail_out)
        out == [z EXCEPT !.avail_out = @ - w, !.total_out = @ + w]
    IN  CASE z.zmode = "done" -> [t |-> "Z_STREAM_END", z |-> z]
          [] z.zmode = "bad"  -> [t |-> "Z_DATA_ERROR", z |-> z]
          [] w < d -> [t |-> IF w > 0 \/ progress THEN "Z_OK"
                             ELSE "Z_BUF_ERROR",
                       z |-> [out EXCEPT !.zmode = "bad"]]
          [] kind = "data" -> [t |-> "Z_OK", z |-> out]
          [] kind = "end" ->
                [t |-> "Z_STREAM_END", z |-> [out EXCEPT !.zmode = "done"]]
          [] OTHER ->
                [t |-> "Z_DATA_ERROR", z |-> [out EXCEPT !.zmode = "bad"]]

\* the test after inflate(): the result that makes the callback cancel
InflateFailed(t, avail_out) ==
    t # "Z_OK" /\ (t # "Z_STREAM_END" \/ avail_out # 0)

\* ------------------------------------------------- HttpReq buffer protocol
\* reserveput(): room for len more bytes at bufpos in req->in
reserveput(rq, len) ==
    IF rq.buf \/ rq.bufpos + len <= rq.inlen THEN rq
    ELSE [rq EXCEPT !.inlen = rq.bufpos + len]

\* completeput(): len bytes were written at bufpos
completeput(rq, len) == [rq EXCEPT !.bufpos = @ + len]

\* setcontentlength()
setcontentlength(rq, len) == [rq EXCEPT !.contentlength = len]

\* inetstatus(): the connectivity flag
inetstatus(i, up) == [i EXCEPT !.noinetds = ~up]

\* ------------------------------------------------------------ asynccallback
\* cancel(req); httpevent(), after the callback changed ctx to cx and tp to t
CancelFromCallback(rq, cx, t) ==
    /\ req' = CancelReq(rq)
    /\ ctx' = CancelCtx(rq, cx)
    /\ tp' = CancelTp(rq, cx, t)
    /\ io' = httpevent(io)
    /\ crashed' = crashed

\* WINHTTP_CALLBACK_STATUS_DATA_AVAILABLE, size = 0
DataComplete(c) ==
    /\ req' = [req EXCEPT !.status = IF req.httpstatus = 200
                                     THEN "REQ_SUCCESS" ELSE "REQ_FAILURE"]
    /\ io' = httpevent(io)
    /\ UNCHANGED <<ctx, tp, crashed>>

\* WINHTTP_CALLBACK_STATUS_DATA_AVAILABLE, size > 0.  httpctx->gzip is read
\* here; post() does not initialise it, so when the headers callback left it
\* unset either value may be read, and httpctx->z may be uninitialised.
DataAvailable(c, size, E) ==
    \E gz \in (IF ctx[c].gzip = "unset" THEN BOOLEAN
               ELSE {ctx[c].gzip = "on"}),
       readok \in BOOLEAN :
       LET rq == IF gz THEN req ELSE reserveput(req, size)
           t1 == [tp EXCEPT ![c].pend = "READ_COMPLETE", ![c].n = size,
                            ![c].bodyleft = @ - size]
       IN
       IF ~readok THEN CancelFromCallback(rq, ctx, tp)
       ELSE IF ~gz THEN
            /\ req' = rq /\ tp' = t1 /\ io' = httpevent(io)
            /\ UNCHANGED <<ctx, crashed>>
       ELSE IF ~ctx[c].zinit THEN
            \/ /\ crashed' = "inflate on uninitialised z_stream"
               /\ tp' = t1
               /\ UNCHANGED <<req, ctx, io>>
            \/ CancelFromCallback(rq, ctx, t1)
       ELSE \E kind \in E.kinds, progress \in BOOLEAN :
            LET r == Inflate(ctx[c], size, kind, progress)
                cx == [ctx EXCEPT ![c] = r.z]
            IN  IF InflateFailed(r.t, r.z.avail_out)
                THEN CancelFromCallback(rq, cx, t1)
                ELSE /\ req' = rq /\ ctx' = cx /\ tp' = t1
                     /\ io' = httpevent(io)
                     /\ crashed' = crashed

\* WINHTTP_CALLBACK_STATUS_READ_COMPLETE
ReadComplete(c, n) ==
    IF n = 0 THEN UNCHANGED <<req, ctx, tp, io, crashed>>
    ELSE \E queryok \in BOOLEAN :
         LET rq == completeput(req, n) IN
         IF queryok
         THEN /\ req' = rq
              /\ tp' = [tp EXCEPT ![c].pend = "DATA_AVAILABLE"]
              /\ UNCHANGED <<ctx, io, crashed>>
         ELSE CancelFromCallback(rq, ctx, tp)

\* what the response headers can hold
StatusCodes == {200, 500}
NoHeader == -1
ContentLengths == {NoHeader} \cup (0..MaxCL)
ContentEncodings == {"gzip", "GZIP", "absent"}

\* the Content-Encoding test: the header is there and is exactly "gzip"
IsGzip(enc) == enc = "gzip"

\* WINHTTP_CALLBACK_STATUS_HEADERS_AVAILABLE
HeadersAvailable(c, E) ==
    \E codeok \in BOOLEAN, code \in StatusCodes, cl \in E.cls,
       enc \in E.encs, queryok \in BOOLEAN, body \in E.bodies :
       IF ~codeok THEN CancelFromCallback(req, ctx, tp)
       ELSE
       LET gz == IsGzip(enc)
           r1 == [req EXCEPT !.httpstatus = code]
           rq == IF req.buf \/ cl = NoHeader THEN r1
                 ELSE IF gz
                      THEN [setcontentlength(r1, cl) EXCEPT !.inlen = cl]
                      ELSE setcontentlength(r1, cl)
           cx == IF req.buf THEN [ctx EXCEPT ![c].gzip = "off"]
                 ELSE IF cl = NoHeader THEN ctx
                 ELSE IF gz
                      THEN [ctx EXCEPT ![c].gzip = "on",
                                       ![c].zinit = TRUE,
                                       ![c].zmode = "run",
                                       ![c].total_out = 0,
                                       ![c].avail_out = cl]
                      ELSE [ctx EXCEPT ![c].gzip = "off"]
       IN  IF ~queryok THEN CancelFromCallback(rq, cx, tp)
           ELSE /\ req' = rq
                /\ ctx' = cx
                /\ tp' = [tp EXCEPT ![c].pend = "DATA_AVAILABLE",
                                    ![c].bodyleft = body]
                /\ io' = IF io.waiter /\ io.noinetds
                         THEN inetstatus(io, TRUE) ELSE io
                /\ crashed' = crashed

\* GetLastError() != ERROR_WINHTTP_TIMEOUT, the test that guards
\* inetstatus(false)
NotTimeoutIgnored(timeout) == TRUE

NotTimeout(timeout) == ~timeout

\* WINHTTP_CALLBACK_STATUS_REQUEST_ERROR, falling through to SECURE_FAILURE
RequestError(c, timeout) ==
    /\ req' = CancelReq(req)
    /\ ctx' = CancelCtx(req, ctx)
    /\ tp' = CancelTp(req, ctx, tp)
    /\ io' = httpevent(IF io.waiter /\ NotTimeout(timeout)
                       THEN inetstatus(io, FALSE) ELSE io)
    /\ crashed' = crashed

\* WINHTTP_CALLBACK_STATUS_SECURE_FAILURE
SecureFailure(c) == CancelFromCallback(req, ctx, tp)

\* the size of the next instalment
NextChunkUnclipped(pos, len) == HTTP_POST_CHUNK_SIZE

NextChunk(pos, len) ==
    IF len - pos > HTTP_POST_CHUNK_SIZE THEN HTTP_POST_CHUNK_SIZE
    ELSE len - pos

\* where in postdata the next instalment starts: pos is httpctx->postpos as
\* it was before it is advanced by t
WriteOffsetAdvanced(pos, t) == pos + t

WriteOffset(pos, t) == pos

\* WINHTTP_CALLBACK_STATUS_SENDREQUEST_COMPLETE and _WRITE_COMPLETE
SendOrWriteComplete(c) ==
    IF ctx[c].postpos < ctx[c].postlen
    THEN \E writeok \in BOOLEAN :
         LET t == NextChunk(ctx[c].postpos, ctx[c].postlen)
             cx == [ctx EXCEPT ![c].postpos = @ + t]
         IN  IF writeok
             THEN /\ ctx' = cx
                  /\ tp' = [tp EXCEPT ![c].pend = "WRITE_COMPLETE",
                                      ![c].writes = Append(@, t),
                                      ![c].offs = Append(@,
                                          WriteOffset(ctx[c].postpos, t))]
                  /\ io' = httpevent(io)
                  /\ UNCHANGED <<req, crashed>>
             ELSE \* cancel(req), then httpevent()
                  CancelFromCallback(req, cx, tp)
    ELSE \E recvok \in BOOLEAN :
         IF recvok
         THEN /\ tp' = [tp EXCEPT ![c].pend = "HEADERS_AVAILABLE",
                                  ![c].receiving = TRUE]
              /\ UNCHANGED <<req, ctx, io, crashed>>
         ELSE CancelFromCallback(req, ctx, tp)

\* the test at the top of asynccallback(): the request was cancelled
RequestGoneNever(c) == FALSE

RequestGone(c) == ~ctx[c].req

\* the switch on dwInternetStatus
Dispatch(c, e, E) ==
    CASE e.ev = "DATA_AVAILABLE" ->
            IF e.n = 0 THEN DataComplete(c) ELSE DataAvailable(c, e.n, E)
      [] e.ev = "READ_COMPLETE" -> ReadComplete(c, e.n)
      [] e.ev = "HEADERS_AVAILABLE" -> HeadersAvailable(c, E)
      [] e.ev = "REQUEST_ERROR" -> RequestError(c, e.timeout)
      [] e.ev = "SECURE_FAILURE" -> SecureFailure(c)
      [] OTHER -> SendOrWriteComplete(c)

\* A worker thread calls asynccallback() for context c with a notification
\* other than HANDLE_CLOSING: it reads httpctx->httpio and blocks in entercs().
\* WinHTTP delivers the notification of the operation in progress, or its
\* failure; one notification at a time per request handle, none after
\* HANDLE_CLOSING.
Notifications(c) ==
    LET p == tp[c].pend IN
    IF p = "none" THEN {}
    ELSE {[NoEvent EXCEPT !.ev = "REQUEST_ERROR", !.timeout = t] :
              t \in BOOLEAN}
         \cup (IF p = "SENDREQUEST_COMPLETE"
               THEN {[NoEvent EXCEPT !.ev = "SECURE_FAILURE"]} ELSE {})
         \cup (IF p = "DATA_AVAILABLE"
               THEN IF tp[c].bodyleft = 0
                    THEN {[NoEvent EXCEPT !.ev = p]}
                    ELSE {[NoEvent EXCEPT !.ev = p, !.n = k] :
                              k \in 1..tp[c].bodyleft}
               ELSE IF p = "READ_COMPLETE"
                    THEN {[NoEvent EXCEPT !.ev = p, !.n = tp[c].n]}
                    ELSE {[NoEvent EXCEPT !.ev = p]})

Enter(c, e) ==
    /\ crashed = "no"
    /\ cb[c].ev = "none"
    /\ e \in Notifications(c)
    /\ IF ctx[c].mem = "live"
       THEN /\ cb' = [cb EXCEPT ![c] = e]
            /\ tp' = [tp EXCEPT ![c].pend = "none"]
            /\ UNCHANGED <<req, ctx, cs, io, crashed>>
       ELSE /\ crashed' = "httpctx read after delete"
            /\ UNCHANGED <<req, ctx, tp, cb, cs, io>>

\* asynccallback() with WINHTTP_CALLBACK_STATUS_HANDLE_CLOSING, the last
\* notification for a request handle that was closed: no lock is taken
HandleClosing(c) ==
    /\ crashed = "no"
    /\ cb[c].ev = "none"
    /\ ctx[c].mem = "live"
    /\ tp[c].closedRequest > 0
    /\ IF ctx[c].req
       THEN /\ crashed' = "assert(!httpctx->req)"
            /\ UNCHANGED ctx
       ELSE /\ ctx' = [ctx EXCEPT ![c] = [InitCtx EXCEPT !.mem = "deleted"]]
            /\ crashed' = crashed
    /\ tp' = [tp EXCEPT ![c] = InitTp]
    /\ UNCHANGED <<req, cb, cs, io>>

\* The worker thread gets csHTTP (the application thread is waiting), runs
\* the rest of asynccallback() and leaves csHTTP.
Callback(c, E) ==
    /\ crashed = "no"
    /\ cs = "free"
    /\ cb[c].ev # "none"
    /\ cb' = [cb EXCEPT ![c] = NoEvent]
    /\ cs' = cs
    /\ IF RequestGone(c)
       THEN UNCHANGED <<req, ctx, tp, io, crashed>>
       ELSE IF ~ctx[c].req
            THEN /\ crashed' = "req is NULL"
                 /\ UNCHANGED <<req, ctx, tp, io>>
            ELSE Dispatch(c, cb[c], E)

\* ------------------------------------------------------------ environments
\* What the application and the server do in each specification: the body
\* lengths posted, how many post() calls are made and how many contexts may
\* be alive (not yet deleted) at once, the response headers, the
\* response body lengths and the kinds of compressed chunk.
LifecycleEnv ==
    [lens |-> {0, HTTP_POST_CHUNK_SIZE + 1}, posts |-> MaxCtx, alive |-> 2,
     cls |-> {NoHeader}, encs |-> {"absent"}, bodies |-> {0, 1},
     kinds |-> {"data"}]

UploadEnv ==
    [lens |-> 0..(MaxChunks * HTTP_POST_CHUNK_SIZE + 1), posts |-> 1,
     alive |-> 1,
     cls |-> {NoHeader}, encs |-> {"absent"}, bodies |-> {0},
     kinds |-> {"data"}]

ResponseEnv ==
    [lens |-> {0, HTTP_POST_CHUNK_SIZE + 1}, posts |-> 1, alive |-> 1,
     cls |-> ContentLengths, encs |-> ContentEncodings,
     bodies |-> 0..MaxBody, kinds |-> ChunkKinds]

NextIn(E) ==
    \/ AddEvents
    \/ LeaveCS
    \/ EnterCS
    \/ \E len \in E.lens, outcome \in PostOutcomes :
          /\ NewCtx <= E.posts
          /\ Cardinality({c \in Ctxs : ctx[c].mem = "live"}) < E.alive
          /\ Post(len, outcome)
    \/ Cancel
    \/ \E c \in Ctxs : \E e \in Notifications(c) : Enter(c, e)
    \/ \E c \in Ctxs : HandleClosing(c)
    \/ \E c \in Ctxs : Callback(c, E)

\* the request lifecycle: every operation, several contexts, short bodies
Next == NextIn(LifecycleEnv)
Spec == Init /\ [][Next]_vars

\* the chunked upload: one context, every body length
NextUpload == NextIn(UploadEnv)
SpecUpload == InitAny /\ [][NextUpload]_vars

\* the response: one context, every header combination and stream
NextResponse == NextIn(ResponseEnv)
SpecResponse == InitAny /\ [][NextResponse]_vars


\* ------------------------------------------------------------------ claims
\* a step of post(): it allocates a context
PostStep == Cardinality(Allocated') > Cardinality(Allocated)

Terminal == {"REQ_SUCCESS", "REQ_FAILURE"}

\* C1: once the request's status is Success or Failure it never changes
\* again unless post() is called anew; no cancel() and no later callback
\* turns a Success into a Failure or a Failure into a Success.
C1_StatusFinal ==
    [][(req.status \in Terminal /\ req'.status # req.status) => PostStep]_vars

\* C2: cancel() after the request completed naturally has no effect: status,
\* httpstatus and the incoming buffer are as before.  (A request is in
\* REQ_SUCCESS only through its natural completion.)
C2_CancelAfterCompletion ==
    [][(req.status = "REQ_SUCCESS" /\ Cancel)
         => (/\ req'.status = req.status
             /\ req'.httpstatus = req.httpstatus
             /\ req'.inlen = req.inlen
             /\ req'.bufpos = req.bufpos)]_vars

\* C3: after cancel() has run (the request has no context attached), another
\* cancel() changes nothing at all, and no handle is ever closed twice.
C3_CancelIdempotent ==
    [][/\ (req.httpiohandle = NoCtx /\ Cancel) => UNCHANGED vars
       /\ \A c \in Ctxs : /\ tp'[c].closedConnect <= 1
                          /\ tp'[c].closedRequest <= 1]_vars

\* a cancel() has run and the application can call cancel() again
C3_Witness ==
    /\ cs = "app" /\ crashed = "no"
    /\ req.httpiohandle = NoCtx
    /\ \E c \in Ctxs : /\ ctx[c].mem = "live" /\ ~ctx[c].req
                       /\ tp[c].closedRequest = 1 /\ tp[c].closedConnect = 1

\* C4: when post() fails at a setup step it returns with status Failure and
\* with no context attached to the request.
C4_FailedPostDetached ==
    [][(PostStep /\ req'.status = "REQ_FAILURE")
         => (/\ req'.httpiohandle = NoCtx
             /\ \A c \in Ctxs : ~ctx'[c].req)]_vars

\* C5: cancel() of the request while the DATA_AVAILABLE callback of its
\* context is in asynccallback() on a worker thread: the cancel leaves the
\* request in REQ_FAILURE, and the callback, when it gets the lock, touches
\* neither the request (which stays as cancel() left it) nor freed memory.
C5_CancelDuringDataCallback ==
    [][\A c \in Ctxs :
         /\ (cb[c].ev = "DATA_AVAILABLE" /\ req.httpiohandle = c /\ Cancel)
              => (/\ req'.status = "REQ_FAILURE"
                  /\ ~ctx'[c].req
                  /\ crashed' = "no")
         /\ (cb[c].ev = "DATA_AVAILABLE" /\ ~ctx[c].req
                /\ Callback(c, LifecycleEnv))
              => (/\ req' = req
                  /\ crashed' = "no")]_vars

\* the request was cancelled while the callback waits for csHTTP
C5_Witness ==
    \E c \in Ctxs :
        /\ cb[c].ev = "DATA_AVAILABLE" /\ ctx[c].mem = "live" /\ ~ctx[c].req
        /\ req.status = "REQ_FAILURE" /\ req.httpiohandle = NoCtx
        /\ cs = "free" /\ crashed = "no"

\* C6: once cancel() has detached a context (it closed the context's request
\* handle), every callback for that context other than HANDLE_CLOSING changes
\* nothing: not the request, not the context and its send cursor, not the
\* wakeup event, and it makes no WinHTTP call.
C6_CallbackAfterCancelNoOp ==
    [][\A c \in Ctxs :
         (tp[c].closedRequest > 0 /\ Callback(c, LifecycleEnv))
            => UNCHANGED <<req, ctx, tp, io, crashed>>]_vars

\* a notification is being delivered for a context cancel() has detached
C6_Witness ==
    \E c \in Ctxs :
        /\ tp[c].closedRequest > 0 /\ ctx[c].mem = "live"
        /\ cb[c].ev \notin {"none", "REQUEST_ERROR"}
        /\ cs = "free" /\ crashed = "no"
        /\ ~io.hWakeupEvent

\* the pieces of the body WinHTTP was given: the one sent with the request
\* (WinHttpSendRequest) and the later writes (WinHttpWriteData)
Pieces(c) == <<tp[c].first>> \o tp[c].writes

RECURSIVE Sum(_)
Sum(s) == IF s = <<>> THEN 0 ELSE Head(s) + Sum(Tail(s))

\* the upload ran to completion: WinHttpReceiveResponse was called
UploadDone(c) == ctx[c].mem = "live" /\ tp[c].receiving

\* C7: when the upload runs to completion the pieces sent (the first with the
\* request, then every write) add up to the body length, every piece but the
\* last is a full instalment, the last is at most one, and the send cursor
\* never passes the body length.
C7_PiecesSumToLength ==
    \A c \in Ctxs :
        /\ ctx[c].postpos <= ctx[c].postlen
        /\ UploadDone(c) =>
              LET p == Pieces(c) IN
              /\ Sum(p) = ctx[c].postlen
              /\ \A i \in 1..(Len(p) - 1) : p[i] = HTTP_POST_CHUNK_SIZE
              /\ p[Len(p)] <= HTTP_POST_CHUNK_SIZE

\* an upload in three pieces, the last one short
C7_Witness ==
    \E c \in Ctxs :
        /\ UploadDone(c)
        /\ Len(Pieces(c)) = 3
        /\ Pieces(c)[3] < HTTP_POST_CHUNK_SIZE

\* C8 as stated: a body of k full instalments produces exactly k write
\* events (calls of WinHttpWriteData), each of one instalment.
C8_KWrites ==
    \A c \in Ctxs :
        (UploadDone(c) /\ ctx[c].postlen % HTTP_POST_CHUNK_SIZE = 0)
           => /\ Len(tp[c].writes) = ctx[c].postlen \div HTTP_POST_CHUNK_SIZE
              /\ \A i \in 1..Len(tp[c].writes) :
                    tp[c].writes[i] = HTTP_POST_CHUNK_SIZE

\* C8, amended: a body of k full instalments, k >= 1, is sent in exactly k
\* pieces of one instalment each: the first with the request itself, the
\* other k - 1 as write events.
C8_KPiecesOneWithRequest ==
    \A c \in Ctxs :
        (/\ UploadDone(c)
         /\ ctx[c].postlen > 0
         /\ ctx[c].postlen % HTTP_POST_CHUNK_SIZE = 0)
           => LET k == ctx[c].postlen \div HTTP_POST_CHUNK_SIZE IN
              /\ tp[c].first = HTTP_POST_CHUNK_SIZE
              /\ Len(tp[c].writes) = k - 1
              /\ \A i \in 1..Len(tp[c].writes) :
                    tp[c].writes[i] = HTTP_POST_CHUNK_SIZE

\* a body of two instalments was uploaded
C8_Witness ==
    \E c \in Ctxs :
        /\ UploadDone(c)
        /\ ctx[c].postlen = 2 * HTTP_POST_CHUNK_SIZE
        /\ Len(tp[c].writes) = 1

\* C9: on the gzip path a request ends in REQ_SUCCESS only if the
\* decompressed bytes written equal the declared content length and the
\* stream did not run past it (no input was left over when the output
\* filled up); the decompressed bytes never exceed the declared length.
C9_GzipSuccessIsComplete ==
    \A c \in Ctxs :
        (ctx[c].mem = "live" /\ ctx[c].gzip = "on")
           => /\ ctx[c].total_out <= req.contentlength
              /\ (ctx[c].req /\ req.status = "REQ_SUCCESS")
                    => (/\ ctx[c].total_out = req.contentlength
                        /\ ctx[c].zmode # "bad")

\* C10: a REQUEST_ERROR caused by a timeout, for the context attached to the
\* request, leaves the request in REQ_FAILURE and does not raise
\* connectivity-down; connectivity-down is raised by nothing but a
\* REQUEST_ERROR that is not a timeout.
C10_TimeoutNotConnectivityDown ==
    [][/\ \A c \in Ctxs :
            (/\ cb[c].ev = "REQUEST_ERROR" /\ cb[c].timeout
             /\ ctx[c].req /\ req.httpiohandle = c
             /\ Callback(c, LifecycleEnv))
               => (/\ req'.status = "REQ_FAILURE"
                   /\ io'.noinetds = io.noinetds)
       /\ (io'.noinetds /\ ~io.noinetds)
            => \E c \in Ctxs :
                  /\ cb[c].ev = "REQUEST_ERROR" /\ ~cb[c].timeout
                  /\ ctx[c].req
                  /\ Callback(c, LifecycleEnv)]_vars

\* a timeout is being reported for the request's context, the waiter is
\* registered and connectivity is up
C10_Witness ==
    \E c \in Ctxs :
        /\ cb[c].ev = "REQUEST_ERROR" /\ cb[c].timeout
        /\ ctx[c].req /\ req.httpiohandle = c /\ ctx[c].mem = "live"
        /\ io.waiter /\ ~io.noinetds
        /\ cs = "free" /\ crashed = "no"

\* a step in which the worker thread delivering a notification for c ran
\* the locked part of asynccallback() to its end
CallbackStep(c) == cb[c].ev # "none" /\ cb'[c].ev = "none"

\* C11: every callback that moves a bound request to a terminal status
\* (REQ_SUCCESS on completion, REQ_FAILURE through any failure branch) has
\* set the wakeup event when it leaves csHTTP.
C11_TerminalSetsWakeup ==
    [][\A c \in Ctxs :
         (/\ CallbackStep(c) /\ ctx[c].req
          /\ req'.status \in Terminal
          /\ req'.status # req.status)
            => io'.hWakeupEvent]_vars

\* a callback completed the request and the wakeup event is still set
C11_Witness ==
    /\ req.status = "REQ_SUCCESS"
    /\ io.hWakeupEvent
    /\ cs = "free" /\ crashed = "no"

\* C12: every notification, WINHTTP_CALLBACK_STATUS_HANDLE_CLOSING
\* included, is processed by a worker thread that holds csHTTP: none reads
\* or frees a context while the application thread owns csHTTP, and none
\* runs while another notification for the same context is being processed.
C12_EventsUnderLock ==
    [][\A c \in Ctxs :
         /\ (CallbackStep(c) \/ HandleClosing(c)) => cs = "free"
         /\ HandleClosing(c) => cb[c].ev = "none"]_vars

\* the contexts whose req backlink points at the request
Bound == {c \in Ctxs : ctx[c].mem = "live" /\ ctx[c].req}

\* C13: at most one context has its req backlink pointing at the request,
\* whatever sequence of post (also on a request that already has a context,
\* or after a failed post), cancel and callbacks has run.
C13_AtMostOneBound == Cardinality(Bound) <= 1

\* C14: a context is deleted only by the HANDLE_CLOSING notification, at
\* most once, and only when its req backlink is already NULL, so that
\* assert(!httpctx->req) never fails; cancel() never deletes the context.
C14_ReleasedOnlyByHandleClosing ==
    [][/\ crashed' # "assert(!httpctx->req)"
       /\ \A c \in Ctxs :
            /\ ctx[c].mem = "deleted" => ctx'[c].mem = "deleted"
            /\ (ctx[c].mem = "live" /\ ctx'[c].mem # "live")
                  => /\ HandleClosing(c)
                     /\ ~ctx[c].req
                     /\ ctx'[c].mem = "deleted"
            /\ Cancel => ctx'[c].mem = ctx[c].mem]_vars

\* a context has been deleted by HANDLE_CLOSING while another one is live
C14_Witness ==
    /\ crashed = "no"
    /\ \E c \in Ctxs : ctx[c].mem = "deleted"
    /\ \E c \in Ctxs : ctx[c].mem = "live"

\* C15: the req backlink of a context becomes NULL exactly when the request
\* is cancelled or its completion is finalised: the callback that handles
\* DATA_AVAILABLE with size 0 for a bound request leaves the context
\* detached (req NULL, req->httpiohandle NULL), and no other step than a
\* cancel clears a backlink.
C15_DetachedOnCompletionOrCancel ==
    [][\A c \in Ctxs :
         /\ (/\ CallbackStep(c) /\ ctx[c].req
             /\ cb[c].ev = "DATA_AVAILABLE" /\ cb[c].n = 0)
               => (~ctx'[c].req /\ req'.httpiohandle = NoCtx)
         /\ (ctx[c].mem = "live" /\ ctx[c].req /\ ~ctx'[c].req)
               => (/\ req.httpiohandle = c
                   /\ req'.httpiohandle = NoCtx
                   /\ req'.status = "REQ_FAILURE")]_vars

\* C16: while gzip decoding is active the compressed bytes of a completed
\* read go to the decompressor only: the READ_COMPLETE callback does not
\* commit them to the request's incoming buffer (completeput is used only
\* when gzip is inactive), so the put position moves by decompressed output
\* at most.
C16_GzipReadNotCommitted ==
    [][\A c \in Ctxs :
         (/\ CallbackStep(c) /\ ctx[c].req
          /\ cb[c].ev = "READ_COMPLETE" /\ cb[c].n > 0
          /\ ctx[c].gzip = "on")
            => req'.bufpos = req.bufpos]_vars

\* C17: DATA_AVAILABLE with size 0 for a bound request sets REQ_SUCCESS if
\* the HTTP status code is 200 and REQ_FAILURE otherwise; in every reachable
\* state REQ_SUCCESS implies status code 200, and REQ_SUCCESS is reached
\* only through that notification.
C17_SuccessOnly200 == req.status = "REQ_SUCCESS" => req.httpstatus = 200

\* the WinHttpWriteData calls of c cover postdata without gap or overlap,
\* starting where the piece sent with the request ended
Contiguous(c) ==
    /\ Len(tp[c].offs) = Len(tp[c].writes)
    /\ \A i \in 1..Len(tp[c].writes) :
          tp[c].offs[i] = tp[c].first + Sum(SubSeq(tp[c].writes, 1, i - 1))

\* C18: the transport is switched to receiving the response only by a
\* SENDREQUEST_COMPLETE or WRITE_COMPLETE notification that finds
\* postpos = postlen; while postpos < postlen such a notification issues
\* one write of min(postlen - postpos, HTTP_POST_CHUNK_SIZE) bytes starting
\* at the old postpos and advances postpos by that amount; postpos never
\* decreases and no byte of the payload is written twice or skipped.
C18_UploadInOrder ==
    [][\A c \in Ctxs :
         LET sw == /\ CallbackStep(c) /\ ctx[c].req
                   /\ cb[c].ev \in {"SENDREQUEST_COMPLETE", "WRITE_COMPLETE"}
             t == Min(ctx[c].postlen - ctx[c].postpos, HTTP_POST_CHUNK_SIZE)
             k == Len(tp[c].writes)
         IN
         /\ (tp'[c].receiving /\ ~tp[c].receiving)
               => (sw /\ ctx[c].postpos = ctx[c].postlen)
         /\ (sw /\ ctx[c].postpos < ctx[c].postlen)
               => /\ ctx'[c].postpos = ctx[c].postpos + t
                  /\ ~tp'[c].receiving
                  /\ \/ tp'[c].writes = tp[c].writes
                        /\ req'.status = "REQ_FAILURE"
                     \/ /\ tp'[c].writes = Append(tp[c].writes, t)
                        /\ tp'[c].offs[k + 1] = ctx[c].postpos
         /\ (ctx[c].mem = "live" /\ ctx'[c].mem = "live")
               => ctx'[c].postpos >= ctx[c].postpos
         /\ Contiguous(c)']_vars

\* a payload was uploaded in three pieces, the last one clipped, and the
\* transport was switched to receiving the response
C18_Witness ==
    \E c \in Ctxs :
        /\ tp[c].receiving
        /\ ctx[c].postpos = ctx[c].postlen
        /\ Len(tp[c].writes) = 2
        /\ tp[c].writes[2] < HTTP_POST_CHUNK_SIZE

\* C19: gzip decoding is active for a context only if the request has no
\* raw receive buffer, the response carried Original-Content-Length and its
\* Content-Encoding is exactly "gzip": the inflate branch of DATA_AVAILABLE
\* is never taken for a context whose headers callback did not turn gzip
\* on, and gzip is on only for a request posted with Accept-Encoding: gzip,
\* never for one posted as application/octet-stream.
C19_GzipOnlyWhenNegotiated ==
    /\ crashed # "inflate on uninitialised z_stream"
    /\ \A c \in Ctxs :
          (ctx[c].mem = "live" /\ ctx[c].gzip = "on")
             => /\ ~req.buf
                /\ req.contentlength # NoHeader
                /\ tp[c].acceptgzip

\* The scheduling the release of a context relies on: the application
\* thread keeps alternating between owning csHTTP and waiting, and cancels
\* a request that still has a context; a worker thread blocked in entercs()
\* gets csHTTP when the application waits often enough; WinHTTP delivers
\* HANDLE_CLOSING for a request handle that was closed.
Fairness ==
    /\ WF_vars(LeaveCS)
    /\ WF_vars(EnterCS)
    /\ SF_vars(Cancel)
    /\ \A c \in Ctxs : SF_vars(Callback(c, ResponseEnv))
    /\ \A c \in Ctxs : WF_vars(HandleClosing(c))

SpecResponseFair == InitAny /\ [][NextResponse]_vars /\ Fairness

\* C20: every context allocated by post() is eventually deleted, given that
\* the application eventually calls cancel() and WinHTTP eventually
\* delivers HANDLE_CLOSING for each closed request handle; this includes the
\* context of a post() that failed before it obtained a request handle and
\* the context of a request that completed.
C20_EveryContextReleased ==
    \A c \in Ctxs :
        (ctx[c].mem = "live") ~> (ctx[c].mem = "deleted" \/ crashed # "no")

====
